---- MODULE Spec2Model ----
(***************************************************************************)
(* Model of the `spans` crate (src/src/lib.rs): SpansBy wraps a Peekable   *)
(* iterator and hands out Span iterators, each yielding one contiguous run *)
(* of source items whose keys are pairwise connected.                      *)
(*                                                                         *)
(* Option<T> is modelled as a sequence of length 0 (None) or 1 (Some(x)).  *)
(* The Peekable buffer Option<Option<Item>> is therefore <<>> (nothing     *)
(* peeked), << <<>> >> (peeked the end) or << <<x>> >> (peeked item x).    *)
(***************************************************************************)
EXTENDS Integers, Sequences, FiniteSets, TLC

\* ---------------------------------------------------------------- bounds
MaxLen == 3
NumItems == 2
MaxSteps == 7

Items == 1..NumItems

\* The key type C is modelled as a two-valued type: the sixteen predicates
\* over it include reflexive and irreflexive, symmetric and asymmetric ones.
Keys == {0, 1}

Sources == UNION {[1..n -> Items] : n \in 0..MaxLen}

None == <<>>
Some(x) == <<x>>

VARIABLES
    src,            \* the items the wrapped iterator produces, in order
    key,            \* SpansBy.key : item -> comparison key
    are_connected,  \* SpansBy.are_connected : (key, key) -> bool
    iter,           \* SpansBy.iter : Peekable, [pos, peeked]
    span,           \* the one Span that can be alive (exclusive borrow)
    lastOp,         \* which operation ran last
    gotSpan,        \* SpansBy::next returned Some(span)
    ret,            \* what the last Span::next returned (Option<Item>)
    yielded,        \* every item returned by any Span::next, in order
    spans,          \* per Span returned by SpansBy::next: the items it yielded
    keyCalls,       \* source index -> number of key invocations on that item
    adjCalls,       \* the are_connected invocations, in order: arguments
                    \* a, b, the source indices ai, bi of the items they are
                    \* keys of, and the number sp of the Span that called
    spanDone,       \* the live Span has returned None before
    afterDone,      \* the last Span::next was made on a Span with spanDone
    noMoreSpans,    \* number of times SpansBy::next has returned None
    inOrder,        \* the caller has followed the documented driving loop
    abandoned,      \* the last SpansBy::next dropped a Span that had yielded
                    \* an item and had not yet returned None
    steps           \* number of operations performed

vars == <<src, key, are_connected, iter, span, lastOp, gotSpan, ret, yielded,
          spans, keyCalls, adjCalls, spanDone, afterDone, noMoreSpans,
          inOrder, abandoned, steps>>

\* SpansBy::next has returned None before.
outerDone == noMoreSpans > 0

\* ------------------------------------------------------ std::iter::Peekable
\* The wrapped iterator's next(): the item after the first `pos` items.
SourceNext(pos) == IF pos < Len(src) THEN Some(src[pos + 1]) ELSE None

\* Peekable::peek: fill the buffer from the source if it is empty.
Peek(it) ==
    IF it.peeked = None
    THEN [pos |-> IF it.pos < Len(src) THEN it.pos + 1 ELSE it.pos,
          peeked |-> Some(SourceNext(it.pos))]
    ELSE it

\* Peekable::next: take the buffer if filled, else pull from the source.
PeekableNext(it) ==
    IF it.peeked # None
    THEN [value |-> it.peeked[1], iter |-> [pos |-> it.pos, peeked |-> None]]
    ELSE [value |-> SourceNext(it.pos),
          iter |-> [pos |-> IF it.pos < Len(src) THEN it.pos + 1 ELSE it.pos,
                    peeked |-> None]]

\* Number of items handed out by Peekable::next so far.
Consumed(it) == IF it.peeked # None /\ it.peeked[1] # None THEN it.pos - 1 ELSE it.pos

\* ------------------------------------------------------------ SpansBy::next
NoSpan == [live |-> FALSE, prev_key |-> 0, is_init |-> FALSE, prev_idx |-> 0]

\* Variant: decides on the look-ahead buffer as it was before the peek
\* filled it.
SpansByNextResult_StaleBuffer(it) ==
    LET it1 == Peek(it)
        first == IF it.peeked = None THEN None ELSE it.peeked[1]
    IN  IF first # None
        THEN [iter |-> it1, some |-> TRUE,
              span |-> [live |-> TRUE, prev_key |-> key[first[1]],
                        is_init |-> TRUE, prev_idx |-> it1.pos],
              keyed |-> <<it1.pos>>]
        ELSE [iter |-> it1, some |-> FALSE, span |-> NoSpan, keyed |-> <<>>]

\* Variant: consumes the look-ahead item instead of only peeking at it.
SpansByNextResult_Consumes(it) ==
    LET it1 == Peek(it)
        first == it1.peeked[1]
    IN  IF first # None
        THEN [iter |-> PeekableNext(it1).iter, some |-> TRUE,
              span |-> [live |-> TRUE, prev_key |-> key[first[1]],
                        is_init |-> TRUE, prev_idx |-> it1.pos],
              keyed |-> <<it1.pos>>]
        ELSE [iter |-> it1, some |-> FALSE, span |-> NoSpan, keyed |-> <<>>]

\* Result of SpansBy::next on Peekable state `it`: the new Peekable state,
\* the returned Option<Span> (some, span) and the source indices on which
\* the key function was invoked.  prev_idx is bookkeeping: the source index
\* of the item whose key prev_key holds.
SpansByNextResult(it) ==
    LET it1 == Peek(it)
        first == it1.peeked[1]
    IN  IF first # None
        THEN [iter |-> it1, some |-> TRUE,
              span |-> [live |-> TRUE, prev_key |-> key[first[1]],
                        is_init |-> TRUE, prev_idx |-> it1.pos],
              keyed |-> <<it1.pos>>]
        ELSE [iter |-> it1, some |-> FALSE, span |-> NoSpan, keyed |-> <<>>]

\* --------------------------------------------------------------- Span::next
\* Variant: takes the look-ahead item out of the cursor even when it is not connected.
SpanNextResult_DropsBoundary(sp, it) ==
    IF sp.is_init
    THEN LET n == PeekableNext(it)
         IN  [item |-> n.value, iter |-> n.iter,
              span |-> [sp EXCEPT !.is_init = FALSE],
              keyed |-> <<>>, compared |-> <<>>]
    ELSE LET it1 == Peek(it)
             peek == it1.peeked[1]
         IN  IF peek = None
             THEN [item |-> None, iter |-> it1, span |-> sp,
                   keyed |-> <<>>, compared |-> <<>>]
             ELSE LET peek_key == key[peek[1]]
                      n == IF ~are_connected[sp.prev_key, peek_key]
                           THEN [value |-> None, iter |-> PeekableNext(it1).iter]
                           ELSE PeekableNext(it1)
                  IN  [item |-> n.value, iter |-> n.iter,
                       span |-> [sp EXCEPT !.prev_key = peek_key,
                                           !.prev_idx = it1.pos],
                       keyed |-> <<it1.pos>>,
                       compared |-> <<[a |-> sp.prev_key, b |-> peek_key,
                                       ai |-> sp.prev_idx, bi |-> it1.pos]>>]

\* Variant: never updates prev_key, so every item is compared with the first one.
SpanNextResult_StalePrevKey(sp, it) ==
    IF sp.is_init
    THEN LET n == PeekableNext(it)
         IN  [item |-> n.value, iter |-> n.iter,
              span |-> [sp EXCEPT !.is_init = FALSE],
              keyed |-> <<>>, compared |-> <<>>]
    ELSE LET it1 == Peek(it)
             peek == it1.peeked[1]
         IN  IF peek = None
             THEN [item |-> None, iter |-> it1, span |-> sp,
                   keyed |-> <<>>, compared |-> <<>>]
             ELSE LET peek_key == key[peek[1]]
                      n == IF ~are_connected[sp.prev_key, peek_key]
                           THEN [value |-> None, iter |-> it1]
                           ELSE PeekableNext(it1)
                  IN  [item |-> n.value, iter |-> n.iter,
                       span |-> sp,
                       keyed |-> <<it1.pos>>,
                       compared |-> <<[a |-> sp.prev_key, b |-> peek_key,
                                       ai |-> sp.prev_idx, bi |-> it1.pos]>>]

\* Variant: ignores is_init, so the first item is validated against its own key.
SpanNextResult_NoInit(sp, it) ==
    IF FALSE
    THEN [item |-> None, iter |-> it, span |-> sp,
          keyed |-> <<>>, compared |-> <<>>]
    ELSE LET it1 == Peek(it)
             peek == it1.peeked[1]
         IN  IF peek = None
             THEN [item |-> None, iter |-> it1, span |-> sp,
                   keyed |-> <<>>, compared |-> <<>>]
             ELSE LET peek_key == key[peek[1]]
                      n == IF ~are_connected[sp.prev_key, peek_key]
                           THEN [value |-> None, iter |-> it1]
                           ELSE PeekableNext(it1)
                  IN  [item |-> n.value, iter |-> n.iter,
                       span |-> [sp EXCEPT !.prev_key = peek_key,
                                           !.prev_idx = it1.pos],
                       keyed |-> <<it1.pos>>,
                       compared |-> <<[a |-> sp.prev_key, b |-> peek_key,
                                       ai |-> sp.prev_idx, bi |-> it1.pos]>>]

\* Variant: computes the key of the look-ahead item before testing is_init.
SpanNextResult_KeyOnFirstPull(sp, it) ==
    IF sp.is_init
    THEN LET n == PeekableNext(it)
         IN  [item |-> n.value, iter |-> n.iter,
              span |-> [sp EXCEPT !.is_init = FALSE],
              keyed |-> <<Peek(it).pos>>, compared |-> <<>>]
    ELSE LET it1 == Peek(it)
             peek == it1.peeked[1]
         IN  IF peek = None
             THEN [item |-> None, iter |-> it1, span |-> sp,
                   keyed |-> <<>>, compared |-> <<>>]
             ELSE LET peek_key == key[peek[1]]
                      n == IF ~are_connected[sp.prev_key, peek_key]
                           THEN [value |-> None, iter |-> it1]
                           ELSE PeekableNext(it1)
                  IN  [item |-> n.value, iter |-> n.iter,
                       span |-> [sp EXCEPT !.prev_key = peek_key,
                                           !.prev_idx = it1.pos],
                       keyed |-> <<it1.pos>>,
                       compared |-> <<[a |-> sp.prev_key, b |-> peek_key,
                                       ai |-> sp.prev_idx, bi |-> it1.pos]>>]

\* Variant: the connected test is inverted.
SpanNextResult_Inverted(sp, it) ==
    IF sp.is_init
    THEN LET n == PeekableNext(it)
         IN  [item |-> n.value, iter |-> n.iter,
              span |-> [sp EXCEPT !.is_init = FALSE],
              keyed |-> <<>>, compared |-> <<>>]
    ELSE LET it1 == Peek(it)
             peek == it1.peeked[1]
         IN  IF peek = None
             THEN [item |-> None, iter |-> it1, span |-> sp,
                   keyed |-> <<>>, compared |-> <<>>]
             ELSE LET peek_key == key[peek[1]]
                      n == IF are_connected[sp.prev_key, peek_key]
                           THEN [value |-> None, iter |-> it1]
                           ELSE PeekableNext(it1)
                  IN  [item |-> n.value, iter |-> n.iter,
                       span |-> [sp EXCEPT !.prev_key = peek_key,
                                           !.prev_idx = it1.pos],
                       keyed |-> <<it1.pos>>,
                       compared |-> <<[a |-> sp.prev_key, b |-> peek_key,
                                       ai |-> sp.prev_idx, bi |-> it1.pos]>>]

\* Variant: the first pull returns the look-ahead item without taking it
\* out of the cursor.
SpanNextResult_FirstPullPeeks(sp, it) ==
    IF sp.is_init
    THEN [item |-> Peek(it).peeked[1], iter |-> Peek(it),
          span |-> [sp EXCEPT !.is_init = FALSE],
          keyed |-> <<>>, compared |-> <<>>]
    ELSE LET it1 == Peek(it)
             peek == it1.peeked[1]
         IN  IF peek = None
             THEN [item |-> None, iter |-> it1, span |-> sp,
                   keyed |-> <<>>, compared |-> <<>>]
             ELSE LET peek_key == key[peek[1]]
                      n == IF ~are_connected[sp.prev_key, peek_key]
                           THEN [value |-> None, iter |-> it1]
                           ELSE PeekableNext(it1)
                  IN  [item |-> n.value, iter |-> n.iter,
                       span |-> [sp EXCEPT !.prev_key = peek_key,
                                           !.prev_idx = it1.pos],
                       keyed |-> <<it1.pos>>,
                       compared |-> <<[a |-> sp.prev_key, b |-> peek_key,
                                       ai |-> sp.prev_idx, bi |-> it1.pos]>>]

\* Variant: passes the two keys to are_connected in the opposite order.
SpanNextResult_SwappedArgs(sp, it) ==
    IF sp.is_init
    THEN LET n == PeekableNext(it)
         IN  [item |-> n.value, iter |-> n.iter,
              span |-> [sp EXCEPT !.is_init = FALSE],
              keyed |-> <<>>, compared |-> <<>>]
    ELSE LET it1 == Peek(it)
             peek == it1.peeked[1]
         IN  IF peek = None
             THEN [item |-> None, iter |-> it1, span |-> sp,
                   keyed |-> <<>>, compared |-> <<>>]
             ELSE LET peek_key == key[peek[1]]
                      n == IF ~are_connected[peek_key, sp.prev_key]
                           THEN [value |-> None, iter |-> it1]
                           ELSE PeekableNext(it1)
                  IN  [item |-> n.value, iter |-> n.iter,
                       span |-> [sp EXCEPT !.prev_key = peek_key,
                                           !.prev_idx = it1.pos],
                       keyed |-> <<it1.pos>>,
                       compared |-> <<[a |-> peek_key, b |-> sp.prev_key,
                                       ai |-> it1.pos, bi |-> sp.prev_idx]>>]

\* Result of Span::next on Span `sp` and Peekable state `it`: the returned
\* Option<Item>, the new Span and Peekable states, the source indices on
\* which key was invoked and the are_connected invocations made.
SpanNextResult(sp, it) ==
    IF sp.is_init
    THEN LET n == PeekableNext(it)
         IN  [item |-> n.value, iter |-> n.iter,
              span |-> [sp EXCEPT !.is_init = FALSE],
              keyed |-> <<>>, compared |-> <<>>]
    ELSE LET it1 == Peek(it)
             peek == it1.peeked[1]
         IN  IF peek = None
             THEN [item |-> None, iter |-> it1, span |-> sp,
                   keyed |-> <<>>, compared |-> <<>>]
             ELSE LET peek_key == key[peek[1]]
                      n == IF ~are_connected[sp.prev_key, peek_key]
                           THEN [value |-> None, iter |-> it1]
                           ELSE PeekableNext(it1)
                  IN  [item |-> n.value, iter |-> n.iter,
                       span |-> [sp EXCEPT !.prev_key = peek_key,
                                           !.prev_idx = it1.pos],
                       keyed |-> <<it1.pos>>,
                       compared |-> <<[a |-> sp.prev_key, b |-> peek_key,
                                       ai |-> sp.prev_idx, bi |-> it1.pos]>>]

\* ------------------------------------------------------------------ actions
CountKeyCalls(kc, keyed) ==
    [i \in DOMAIN kc |-> kc[i] + Cardinality({j \in DOMAIN keyed : keyed[j] = i})]

\* Spans::spans_by_key: wrap the source in a Peekable, nothing peeked yet.
Init ==
    /\ src \in Sources
    /\ key \in [Items -> Keys]
    /\ are_connected \in [Keys \X Keys -> BOOLEAN]
    /\ iter = [pos |-> 0, peeked |-> None]
    /\ span = NoSpan
    /\ lastOp = "spans_by_key"
    /\ gotSpan = FALSE
    /\ ret = None
    /\ yielded = <<>>
    /\ spans = <<>>
    /\ keyCalls = [i \in 1..Len(src) |-> 0]
    /\ adjCalls = <<>>
    /\ spanDone = FALSE
    /\ afterDone = FALSE
    /\ noMoreSpans = 0
    /\ inOrder = TRUE
    /\ abandoned = FALSE
    /\ steps = 0

\* The caller invokes SpansBy::next.  Any earlier Span is dead from here on:
\* the call needs the &mut borrow the Span was holding.
SpansByNext ==
    LET r == SpansByNextResult(iter)
    IN  /\ iter' = r.iter
        /\ span' = r.span
        /\ lastOp' = "SpansBy::next"
        /\ gotSpan' = r.some
        /\ spans' = IF r.some THEN Append(spans, <<>>) ELSE spans
        /\ keyCalls' = CountKeyCalls(keyCalls, r.keyed)
        /\ spanDone' = FALSE
        /\ afterDone' = FALSE
        /\ noMoreSpans' = IF r.some THEN noMoreSpans ELSE noMoreSpans + 1
        /\ inOrder' = (inOrder /\ ~outerDone /\ (span.live => spanDone))
        /\ abandoned' = (span.live /\ ~spanDone /\ lastOp = "Span::next")
        /\ steps' = steps + 1
        /\ UNCHANGED <<src, key, are_connected, ret, yielded, adjCalls>>

\* The caller invokes Span::next on the live Span.
SpanNext ==
    /\ span.live
    /\ LET r == SpanNextResult(span, iter)
       IN  /\ iter' = r.iter
           /\ span' = r.span
           /\ lastOp' = "Span::next"
           /\ ret' = r.item
           /\ yielded' = yielded \o r.item
           /\ spans' = [spans EXCEPT ![Len(spans)] = @ \o r.item]
           /\ keyCalls' = CountKeyCalls(keyCalls, r.keyed)
           /\ adjCalls' = adjCalls \o [i \in DOMAIN r.compared |->
                                        [a |-> r.compared[i].a,
                                         b |-> r.compared[i].b,
                                         ai |-> r.compared[i].ai,
                                         bi |-> r.compared[i].bi,
                                         sp |-> Len(spans)]]
           /\ spanDone' = (spanDone \/ r.item = None)
           /\ afterDone' = spanDone
           /\ inOrder' = (inOrder /\ ~spanDone)
           /\ steps' = steps + 1
           /\ UNCHANGED <<src, key, are_connected, gotSpan, noMoreSpans,
                          abandoned>>

\* Any use the borrow checker admits, cut off after MaxSteps operations.
Next ==
    \/ steps < MaxSteps /\ SpansByNext
    \/ steps < MaxSteps /\ SpanNext

Spec == Init /\ [][Next]_vars

\* The documented driving loop: `while let Some(span) = spans.next()` with
\* each span drained until its first None (collect / count).
DrainSpansByNext ==
    /\ ~outerDone
    /\ (span.live => spanDone)
    /\ SpansByNext

DrainSpanNext ==
    /\ ~spanDone
    /\ SpanNext

DrainNext ==
    \/ DrainSpansByNext
    \/ DrainSpanNext

DrainSpec == Init /\ [][DrainNext]_vars

\* The driving loop has run to completion.
Drained == inOrder /\ outerDone

\* A caller that keeps asking for spans until it is told there are no more,
\* pulls at least one item from every Span it gets and may then drop the
\* Span at any point up to its first None.
LoopSpansByNext ==
    /\ ~outerDone
    /\ lastOp # "SpansBy::next"
    /\ SpansByNext

LoopSpanNext ==
    /\ ~spanDone
    /\ SpanNext

LoopNext ==
    \/ LoopSpansByNext
    \/ LoopSpanNext

\* The caller does not stop in the middle: a call it can make is made.
LoopSpec ==
    /\ Init
    /\ [][LoopNext]_vars
    /\ WF_vars(LoopSpansByNext)
    /\ WF_vars(LoopSpanNext)

\* ------------------------------------------------------ derived quantities
RECURSIVE Flatten(_)
Flatten(ss) == IF ss = <<>> THEN <<>> ELSE Head(ss) \o Flatten(Tail(ss))

Last(s) == s[Len(s)]

\* The source is cut between positions i and i+1.
Cut(i) == ~are_connected[key[src[i]], key[src[i + 1]]]

\* Reference segmentation of the first n source items into maximal runs.
RECURSIVE Segments(_)
Segments(n) ==
    IF n = 0 THEN <<>>
    ELSE IF n = 1 THEN << <<src[1]>> >>
    ELSE LET p == Segments(n - 1)
         IN  IF Cut(n - 1)
             THEN Append(p, <<src[n]>>)
             ELSE [p EXCEPT ![Len(p)] = Append(@, src[n])]

\* The Span the last operation acted on.
CurSpan == spans[Len(spans)]

\* ------------------------------------------------------------------ claims

\* C1: when the caller runs the driving loop to the end (SpansBy::next until
\* None, each Span drained until its first None), the concatenation of the
\* items yielded by the spans, in order, is exactly the source sequence.
C1_Coverage == Drained => (Flatten(spans) = src /\ yielded = src)

C1_Witness ==
    Drained /\ Len(src) = MaxLen /\ Len(spans) >= 2 /\ Len(spans) < Len(src)

\* C2 (as stated): once a Span::next has returned None, every further
\* Span::next on that Span returns None as well.
C2_SpanExhaustionIdempotent ==
    (lastOp = "Span::next" /\ afterDone) => ret = None

C4_Boundary ==
    inOrder => \A j \in 1..(Len(spans) - 1) :
                  (spans[j] # <<>> /\ spans[j + 1] # <<>>)
                  => ~are_connected[key[Last(spans[j])], key[spans[j + 1][1]]]

C4_Witness ==
    /\ Drained
    /\ Len(spans) >= 2
    /\ Len(spans[1]) >= 2
    /\ are_connected[key[spans[1][1]], key[spans[2][1]]]

\* C5 (as stated): any two items yielded one after the other by the same
\* Span are connected.
C5_InternalAdjacency ==
    \A j \in 1..Len(spans) : \A i \in 1..(Len(spans[j]) - 1) :
        are_connected[key[spans[j][i]], key[spans[j][i + 1]]]

\* C6: a Span returned by SpansBy::next is never empty: once Span::next has
\* been called on it, it has yielded at least one item.
C6_NonEmptySpan == (lastOp = "Span::next") => CurSpan # <<>>

C6_Witness ==
    /\ lastOp = "Span::next"
    /\ Len(spans) >= 2
    /\ Len(CurSpan) = 1
    /\ ~are_connected[key[CurSpan[1]], key[CurSpan[1]]]

\* C7: the driving loop run to the end yields exactly the reference
\* segmentation of the source into maximal runs of connected items.
C7_MaximalRuns == Drained => spans = Segments(Len(src))

C7_Witness ==
    /\ Drained
    /\ Len(spans) >= 2
    /\ \E j \in 1..Len(spans) : Len(spans[j]) >= 2
    /\ \E j \in 1..Len(spans) : Len(spans[j]) = 1

\* C8: SpansBy::next returns None exactly when every source item has been
\* yielded; an empty source yields no span and the driving loop over a
\* one-item source yields exactly one span.
C8_NoneIffSourceExhausted ==
    /\ (lastOp = "SpansBy::next") => (~gotSpan <=> Len(yielded) = Len(src))
    /\ (Len(src) = 0) => spans = <<>>
    /\ (Drained /\ Len(src) = 1) => Len(spans) = 1

C8_Witness ==
    /\ lastOp = "SpansBy::next"
    /\ ~gotSpan
    /\ Len(src) >= 2
    /\ ~inOrder

\* C9: once SpansBy::next has returned None, every later SpansBy::next
\* returns None too, and no Span is alive to be pulled from.
C9_OuterExhaustionIdempotent ==
    outerDone => (~span.live /\ (lastOp = "SpansBy::next" => ~gotSpan))

C9_Witness == noMoreSpans >= 2 /\ Len(src) >= 1

\* C10: the number of items taken out of the wrapped iterator exceeds the
\* number of items yielded to the caller by at most one.
C10_OneLookAhead == iter.pos - Len(yielded) \in {0, 1}

C10_Witness ==
    /\ iter.pos = Len(yielded) + 1
    /\ Len(yielded) >= 2
    /\ lastOp = "Span::next"
    /\ ret = None

\* The number of items yielded by the first j Spans.
RECURSIVE YieldedBy(_)
YieldedBy(j) == IF j = 0 THEN 0 ELSE Len(spans[j]) + YieldedBy(j - 1)

IsPrefix(p, s) == Len(p) <= Len(s) /\ p = SubSeq(s, 1, Len(p))

\* C11: when SpansBy::next is called on dropping a Span that has yielded at
\* least one item and has not returned None, it returns a Span exactly when a
\* source item follows the last yielded one, that item is the look-ahead the
\* new Span starts at and the first item it yields, and what has been yielded
\* stays a prefix of the source (nothing skipped, nothing yielded twice).
C11_AbandonSafe ==
    abandoned =>
        /\ IsPrefix(yielded, src)
        /\ Flatten(spans) = yielded
        /\ (lastOp = "SpansBy::next") =>
              /\ gotSpan <=> (Len(yielded) < Len(src))
              /\ gotSpan => /\ iter.pos = Len(yielded) + 1
                            /\ iter.peeked = Some(Some(src[Len(yielded) + 1]))
                            /\ span.prev_key = key[src[Len(yielded) + 1]]
        /\ (gotSpan /\ lastOp = "Span::next") =>
              CurSpan[1] = src[YieldedBy(Len(spans) - 1) + 1]

C11_Witness ==
    /\ abandoned
    /\ gotSpan
    /\ lastOp = "Span::next"
    /\ Len(spans) = 2
    /\ Len(spans[1]) = 1
    /\ Len(src) >= 3
    /\ are_connected[key[src[1]], key[src[2]]]

\* C12: a SpansBy::next call yields and consumes nothing: the items yielded
\* so far and the number of items taken out of the cursor stay as they were,
\* a filled look-ahead buffer is left alone and an empty one is filled from
\* the source; a call that directly follows another SpansBy::next returns
\* the same result, a Span starting at the same source item.
C12_SpansByNextConsumesNothing ==
    [][(lastOp' = "SpansBy::next" /\ steps' = steps + 1) =>
          /\ yielded' = yielded
          /\ Flatten(spans') = Flatten(spans)
          /\ Consumed(iter') = Consumed(iter)
          /\ (iter.peeked # None) => iter' = iter
          /\ (iter.peeked = None) => iter'.peeked = Some(SourceNext(iter.pos))
          /\ (lastOp = "SpansBy::next") =>
                (gotSpan' = gotSpan /\ span' = span /\ iter' = iter)]_vars

C12_Witness ==
    /\ lastOp = "SpansBy::next"
    /\ gotSpan
    /\ Len(spans) >= 3
    /\ spans[Len(spans) - 1] = <<>>
    /\ spans[1] # <<>>

\* C14: the first Span::next on a freshly returned Span clears is_init,
\* invokes neither key nor are_connected, and takes out of the cursor and
\* returns exactly the item that was the look-ahead when the Span was
\* created, the item whose key is the Span's prev_key.
C14_FirstPull ==
    [][(span.live /\ span.is_init /\ lastOp' = "Span::next") =>
          /\ ~span'.is_init
          /\ keyCalls' = keyCalls
          /\ adjCalls' = adjCalls
          /\ ret' = Some(src[span.prev_idx])
          /\ Some(ret') = iter.peeked
          /\ key[ret'[1]] = span.prev_key
          /\ span'.prev_key = span.prev_key
          /\ iter' = [pos |-> iter.pos, peeked |-> None]
          /\ Consumed(iter') = Consumed(iter) + 1
          /\ yielded' = Append(yielded, src[Len(yielded) + 1])]_vars

C14_Witness ==
    /\ lastOp = "Span::next"
    /\ ~afterDone
    /\ ~span.is_init
    /\ Len(CurSpan) = 1
    /\ Len(spans) = 3
    /\ adjCalls = <<>>
    /\ iter.peeked = None

\* C15 (as stated): when a Span::next that is not the first pull finds
\* are_connected(prev_key, peek_key) false, the look-ahead item it compared
\* is the first item yielded by the Span that the next SpansBy::next returns:
\* the Spans up to the one that made the call have yielded exactly the
\* source items before that item.
C15_EndOfSpanLeavesItem ==
    \A i \in DOMAIN adjCalls :
        LET c == adjCalls[i]
        IN  (~are_connected[c.a, c.b] /\ Len(spans) > c.sp
                                      /\ spans[c.sp + 1] # <<>>)
            => YieldedBy(c.sp) + 1 = c.bi

C17_Termination ==
    /\ <>outerDone
    /\ [](steps <= 3 * Len(src) + 1)

C17_Witness ==
    /\ outerDone
    /\ Len(src) = MaxLen
    /\ steps = 3 * Len(src) + 1

RECURSIVE Sum(_, _)
Sum(f, n) == IF n = 0 THEN 0 ELSE f[n] + Sum(f, n - 1)

\* C18: under any sequence of SpansBy::next and Span::next calls, the items
\* yielded so far are a prefix of the source, in source order; they are the
\* items of the Spans in the order the Spans were returned, and every item
\* taken out of the look-ahead cursor has been returned to the caller.
C18_PrefixInvariant ==
    /\ IsPrefix(yielded, src)
    /\ Flatten(spans) = yielded
    /\ Consumed(iter) = Len(yielded)

C18_Witness ==
    /\ ~inOrder
    /\ afterDone
    /\ ret # None
    /\ Len(yielded) = MaxLen
    /\ \E j \in 1..Len(spans) : spans[j] = <<>>

\* C19: after the driving loop over a source of n >= 1 items has run to the
\* end, the total number of key invocations is n + (s - 1), s being the
\* number of spans.
C19_ExactKeyCalls ==
    (Drained /\ Len(src) >= 1) =>
        Sum(keyCalls, Len(src)) = Len(src) + (Len(spans) - 1)

C19_Witness ==
    /\ Drained
    /\ Len(src) = MaxLen
    /\ Len(spans) = 2
    /\ Sum(keyCalls, Len(src)) = MaxLen + 1

\* C20: after the driving loop over a source of n >= 1 items has run to the
\* end, are_connected has been invoked exactly n - 1 times, the i-th time on
\* the keys of the source items i and i + 1, in this order.
C20_ExactPredicateCalls ==
    (Drained /\ Len(src) >= 1) =>
        /\ Len(adjCalls) = Len(src) - 1
        /\ \A i \in DOMAIN adjCalls :
              /\ adjCalls[i].ai = i
              /\ adjCalls[i].bi = i + 1
              /\ adjCalls[i].a = key[src[i]]
              /\ adjCalls[i].b = key[src[i + 1]]

C20_Witness ==
    /\ Drained
    /\ Len(adjCalls) = MaxLen - 1
    /\ Len(spans) = 2
    /\ key[src[1]] # key[src[2]]
    /\ are_connected[key[src[1]], key[src[2]]]
    /\ ~are_connected[key[src[2]], key[src[1]]]

====
